---- MODULE Spec2Model ----
(***************************************************************************)
(* Model of ChipaPocketOptionData/multiprocessing_data.py: the             *)
(* MultiProcessDataCollector supervisor (start, blocking iteration, stop), *)
(* its worker processes (_worker_process / _DataCollectorProcess) and the  *)
(* shared bounded output queue.                                            *)
(*                                                                         *)
(* Abstractions, stated once:                                              *)
(*  - mp.Queue is one bounded FIFO; put_nowait either appends or raises    *)
(*    queue.Full, get(timeout=1) either removes the head or raises         *)
(*    queue.Empty when the queue is empty at the time-out.                 *)
(*  - durations (settle delay, retry delay, poll time-out, grace period)   *)
(*    are not measured: a sleep ends, a time-out expires, at any moment.   *)
(*  - process.terminate() leaves SIGTERM pending; the worker's handler     *)
(*    (sys.exit(0)) runs at some later step of the worker, or never within *)
(*    the grace period.  process.kill() ends the worker at once.           *)
(*  - the main thread runs one call at a time; the generator returned by   *)
(*    __iter__ is suspended between two next() calls, where the main       *)
(*    thread may call start or stop.                                       *)
(*  - the main thread either drives the collector itself or calls the      *)
(*    get_candles facade on a collector of its own, which runs start and   *)
(*    the consumption loop to its end without an interruption.             *)
(***************************************************************************)
EXTENDS Integers, Sequences, FiniteSets, TLC

\* ------------------------------------------------------------- bounds
\* Capacity of the output queue; stands for maxsize=10000 (line 267).
MaxQueue == 2
\* Number of items and faults the external collaborator delivers in total.
MaxEvents == 3
\* Number of calls of _start_processes that spawn workers in one behaviour.
MaxStarts == 2

None == "None"

\* ------------------------------------------------------------- inputs
\* ProxyConfig values (lines 18-25).
\* Ports are written as the decimal strings the f-string of to_url renders.
Proxy1 == [host |-> "h1", port |-> "8080", username |-> "u", password |-> "p", protocol |-> "http"]
Proxy2 == [host |-> "h2", port |-> "1080", username |-> None, password |-> None, protocol |-> "socks5"]

SsidChoices == {<<"s1">>, <<"s1", "s2">>}
\* An Optional value is a sequence of at most one element: <<>> is None.
\* proxies: Optional[List[ProxyConfig]], max_workers: Optional[int].
ProxyChoices == {<<>>, <<<<Proxy1, Proxy2>>>>}

\* Python truth value of an Optional[List]: None and [] are both false.
truthy(opt) == opt # <<>> /\ opt[1] # <<>>

\* Arguments of DataCollectorConfig(...) the collector is run with: proxies
\* are given exactly when proxy_support is set, two identities come with
\* proxies and reconnection, max_workers is left to its default.
ConfigChoices ==
    {c \in [ssids : SsidChoices, proxies : ProxyChoices,
            proxy_support : BOOLEAN, reconnect_on_error : BOOLEAN,
            max_workers : {<<>>}] :
       /\ c.proxy_support <=> truthy(c.proxies)
       /\ Len(c.ssids) > 1 => (c.proxy_support /\ c.reconnect_on_error)}

\* Arguments of DataCollectorConfig(...) tried on the constructor alone.
ArgChoices ==
    [ssids : SsidChoices \cup {<<>>},
     proxies : ProxyChoices \cup {<<<<>>>>, <<<<Proxy1>>>>},
     proxy_support : BOOLEAN, reconnect_on_error : BOOLEAN,
     max_workers : {<<>>, <<0>>, <<1>>, <<4>>}]

\* An Optional[ProxyConfig] is a sequence of at most one ProxyConfig.
NoProxy == <<>>
\* The proxy entry of a record that carries no proxy URL.
NoUrl == <<>>

SubscriptionKinds == {"subscribe_symbol", "subscribe_symbol_timed", "subscribe_symbol_chunked"}
Methods == SubscriptionKinds \cup {"get_candles"}
\* Methods the facades are called with here; the three subscription bodies
\* (lines 93-191) differ only in the collaborator call and the 'type' string.
StartMethods == {"subscribe_symbol_timed", "get_candles"}

\* ProxyConfig.to_url: credentials appear only when both are set.
to_url(p) ==
    IF p.username # None /\ p.password # None
    THEN <<p.protocol, "://", p.username, ":", p.password, "@", p.host, ":", p.port>>
    ELSE <<p.protocol, "://", p.host, ":", p.port>>

\* DataCollectorConfig.__post_init__: TRUE when construction raises ValueError.
post_init_raises(ssids, proxies, proxy_support) ==
    \/ Len(ssids) = 0
    \/ /\ proxy_support
       /\ truthy(proxies)
       /\ Len(proxies[1]) < Len(ssids)

\* Variant of post_init_result: "if not self.max_workers" for "is None".
post_init_result_falsy(c) ==
    [c EXCEPT !.max_workers = IF c.max_workers \in {<<>>, <<0>>}
                              THEN <<Len(c.ssids)>> ELSE c.max_workers]

\* DataCollectorConfig.__post_init__ when it does not raise: the fields of
\* the config it leaves (only max_workers is assigned).
post_init_result(c) ==
    [c EXCEPT !.max_workers = IF c.max_workers = <<>>
                              THEN <<Len(c.ssids)>> ELSE c.max_workers]

VARIABLES
    config,        \* DataCollectorConfig held by the collector
    output_queue,  \* MultiProcessDataCollector.output_queue
    processes,     \* MultiProcessDataCollector.processes (worker indexes)
    started,       \* MultiProcessDataCollector._started
    method,        \* method name passed to the workers of the current run
    wpc,           \* per worker: position in _worker_process
    wproxy,        \* per worker: _DataCollectorProcess.proxy
    stop_event,    \* per worker: _DataCollectorProcess._stop_event
    sigterm,       \* per worker: SIGTERM sent and not yet handled
    main,          \* position of the main thread
    stopIdx,       \* index of stop()'s loop over self.processes
    stopFrom,      \* who called stop(): "call" or "interrupt" (__iter__)
    iter,          \* generator of __iter__: "none", "running", "ended", "aborted"
    raised,        \* exception raised by the last supervisor call
    events,        \* history: collaborator items and faults so far
    runs,          \* history: calls of _start_processes that spawned
    all_candles    \* get_candles facade: the list it accumulates

vars == <<config, all_candles, output_queue, processes, started, method, wpc, wproxy,
          stop_event, sigterm, main, stopIdx, stopFrom, iter, raised,
          events, runs>>

Workers == 1..Len(config.ssids)

AliveStates == {"connect", "settle", "call", "stream", "except", "except_full", "retry"}
is_alive(w) == wpc[w] \in AliveStates

Init ==
    /\ config \in {post_init_result(c) : c \in {a \in ConfigChoices :
                     ~post_init_raises(a.ssids, a.proxies, a.proxy_support)}}
    /\ output_queue = <<>>
    /\ processes = <<>>
    /\ started = FALSE
    /\ method = None
    /\ wpc = [w \in 1..Len(config.ssids) |-> "none"]
    /\ wproxy = [w \in 1..Len(config.ssids) |-> NoProxy]
    /\ stop_event = [w \in 1..Len(config.ssids) |-> FALSE]
    /\ sigterm = [w \in 1..Len(config.ssids) |-> FALSE]
    /\ main = "ready"
    /\ stopIdx = 0
    /\ stopFrom = None
    /\ iter = "none"
    /\ raised = None
    /\ events = 0
    /\ runs = 0
    /\ all_candles = <<>>

\* ------------------------------------------------------------ records
\* Variant of stamp: every worker stamps with the first identity and its proxy.
stamp_first(w, n) ==
    [ssid |-> config.ssids[1],
     proxy |-> IF wproxy[1] # NoProxy THEN to_url(wproxy[1][1]) ELSE NoUrl,
     payload |-> n]

\* candle['ssid'] = self.ssid; candle['proxy'] = self.proxy.to_url() if self.proxy else None
stamp(w, n) ==
    [ssid |-> config.ssids[w],
     proxy |-> IF wproxy[w] # NoProxy THEN to_url(wproxy[w][1]) ELSE NoUrl,
     payload |-> n]

\* A decorated candle put on the queue by a subscription (lines 105-110).
DataRecord(w, n) ==
    [tag |-> "data", ssid |-> stamp(w, n).ssid, proxy |-> stamp(w, n).proxy,
     type |-> None, error |-> None, payload |-> n, data |-> <<>>]

\* error_msg of the except blocks (lines 116-120, 212-216); e is str(e).
\* Its payload entry is the number of collaborator events so far, which
\* tells the records of one worker apart.
ErrorRecord(w, e) ==
    [tag |-> "error", ssid |-> config.ssids[w], proxy |-> NoUrl,
     type |-> method, error |-> e, payload |-> events, data |-> <<>>]

\* result of get_candles (lines 204-208) for the candles the collaborator returned.
BatchRecord(w, n) ==
    [tag |-> "candles", ssid |-> config.ssids[w], proxy |-> NoUrl,
     type |-> "candles", error |-> None, payload |-> n, data |-> <<stamp(w, n)>>]

Full == Len(output_queue) >= MaxQueue

\* Items and faults the collaborator may deliver: a collector with a single
\* identity is followed one event further than one with several.
Budget == IF Len(config.ssids) = 1 THEN MaxEvents + 1 ELSE MaxEvents

\* ------------------------------------------------------------ workers
\* Variant of ends: the end of one worker takes its sibling workers with it.
ends_all(w, how) ==
    /\ wpc' = [v \in Workers |-> IF v = w \/ is_alive(v) THEN how ELSE wpc[v]]
    /\ sigterm' = [v \in Workers |-> FALSE]

\* The worker process ends: with it goes any signal still pending for it.
ends(w, how) ==
    /\ wpc' = [wpc EXCEPT ![w] = how]
    /\ sigterm' = [sigterm EXCEPT ![w] = FALSE]

wUnchanged == UNCHANGED <<config, all_candles, processes, started, method, wproxy, stop_event,
                          main, stopIdx, stopFrom, iter, raised, runs>>

\* _setup_api: api = PocketOptionAsync(self.ssid)
Connect(w) ==
    /\ wpc[w] = "connect"
    /\ wpc' = [wpc EXCEPT ![w] = "settle"]
    /\ UNCHANGED <<output_queue, sigterm, events>>
    /\ wUnchanged

\* _setup_api: await asyncio.sleep(5); return api
Settle(w) ==
    /\ wpc[w] = "settle"
    /\ wpc' = [wpc EXCEPT ![w] = "call"]
    /\ UNCHANGED <<output_queue, sigterm, events>>
    /\ wUnchanged

\* stream = await api.subscribe_symbol(asset) (and the timed, chunked variants)
Subscribe(w) ==
    /\ wpc[w] = "call"
    /\ method \in SubscriptionKinds
    /\ wpc' = [wpc EXCEPT ![w] = "stream"]
    /\ UNCHANGED <<output_queue, sigterm, events>>
    /\ wUnchanged

\* Variant of NextItem: the queue has no capacity, every candle is appended.
NextItem_unbounded(w) ==
    /\ wpc[w] = "stream"
    /\ events < Budget
    /\ events' = events + 1
    /\ IF stop_event[w]
       THEN /\ ends(w, "done")
            /\ UNCHANGED output_queue
       ELSE /\ output_queue' = Append(output_queue, DataRecord(w, events + 1))
            /\ UNCHANGED <<wpc, sigterm>>
    /\ wUnchanged

\* Variant of NextItem: a candle that finds the queue full ends the stream loop.
NextItem_stopfull(w) ==
    /\ wpc[w] = "stream"
    /\ events < Budget
    /\ events' = events + 1
    /\ IF stop_event[w] \/ Full
       THEN /\ ends(w, "done")
            /\ UNCHANGED output_queue
       ELSE /\ output_queue' = Append(output_queue, DataRecord(w, events + 1))
            /\ UNCHANGED <<wpc, sigterm>>
    /\ wUnchanged

\* Variant of NextItem: the stop flag is tested after the candle is enqueued.
NextItem_latecheck(w) ==
    /\ wpc[w] = "stream"
    /\ events < Budget
    /\ events' = events + 1
    /\ output_queue' = IF Full THEN output_queue
                       ELSE Append(output_queue, DataRecord(w, events + 1))
    /\ IF stop_event[w]
       THEN ends(w, "done")
       ELSE UNCHANGED <<wpc, sigterm>>
    /\ wUnchanged

\* One turn of "async for candle in stream": stop check, decoration, put_nowait
\* with queue.Full swallowed.
NextItem(w) ==
    /\ wpc[w] = "stream"
    /\ events < Budget
    /\ events' = events + 1
    /\ IF stop_event[w]
       THEN /\ ends(w, "done")
            /\ UNCHANGED output_queue
       ELSE /\ output_queue' = IF Full THEN output_queue
                               ELSE Append(output_queue, DataRecord(w, events + 1))
            /\ UNCHANGED <<wpc, sigterm>>
    /\ wUnchanged

\* The stream ends: the coroutine (and every enclosing retry frame) returns.
StreamEnd(w) ==
    /\ wpc[w] = "stream"
    /\ ends(w, "done")
    /\ UNCHANGED <<output_queue, events>>
    /\ wUnchanged

\* get_candles: candles = await api.get_candles(...); decorate; put_nowait(result).
\* queue.Full raised by put_nowait is inside the try and lands in the except block.
Fetch(w) ==
    /\ wpc[w] = "call"
    /\ method = "get_candles"
    /\ events < Budget
    /\ events' = events + 1
    /\ IF Full
       THEN /\ wpc' = [wpc EXCEPT ![w] = "except_full"]
            /\ UNCHANGED <<output_queue, sigterm>>
       ELSE /\ output_queue' = Append(output_queue, BatchRecord(w, events + 1))
            /\ ends(w, "done")
    /\ wUnchanged

\* The external collaborator raises in connect, in the subscribe/fetch call or
\* while the worker awaits the next item: control enters "except Exception".
Fault(w) ==
    /\ wpc[w] \in {"connect", "call", "stream"}
    /\ events < Budget
    /\ events' = events + 1
    /\ wpc' = [wpc EXCEPT ![w] = "except"]
    /\ UNCHANGED <<output_queue, sigterm>>
    /\ wUnchanged

\* Variant of Except: queue.Full is swallowed for error_msg as it is for candles.
Except_guarded(w) ==
    /\ wpc[w] \in {"except", "except_full"}
    /\ output_queue' = IF Full THEN output_queue
                       ELSE Append(output_queue,
                              ErrorRecord(w, IF wpc[w] = "except" THEN "fault" ELSE "Full"))
    /\ IF method \in SubscriptionKinds /\ config.reconnect_on_error
       THEN /\ wpc' = [wpc EXCEPT ![w] = "retry"]
            /\ UNCHANGED sigterm
       ELSE ends(w, "done")
    /\ UNCHANGED events
    /\ wUnchanged

\* The except block: put_nowait(error_msg), unguarded, then the reconnect test
\* (subscriptions only; get_candles has none).
Except(w) ==
    /\ wpc[w] \in {"except", "except_full"}
    /\ IF Full
       THEN /\ ends(w, "crashed")
            /\ UNCHANGED output_queue
       ELSE /\ output_queue' = Append(output_queue,
                   ErrorRecord(w, IF wpc[w] = "except" THEN "fault" ELSE "Full"))
            /\ IF method \in SubscriptionKinds /\ config.reconnect_on_error
               THEN /\ wpc' = [wpc EXCEPT ![w] = "retry"]
                    /\ UNCHANGED sigterm
               ELSE ends(w, "done")
    /\ UNCHANGED events
    /\ wUnchanged

\* Variant of Retry: the retry subscribes again on the api of the failed attempt.
Retry_reuse(w) ==
    /\ wpc[w] = "retry"
    /\ wpc' = [wpc EXCEPT ![w] = "call"]
    /\ UNCHANGED <<output_queue, sigterm, events>>
    /\ wUnchanged

\* await asyncio.sleep(error_retry_delay); await self.subscribe_symbol(asset)
Retry(w) ==
    /\ wpc[w] = "retry"
    /\ wpc' = [wpc EXCEPT ![w] = "connect"]
    /\ UNCHANGED <<output_queue, sigterm, events>>
    /\ wUnchanged

\* signal_handler: sys.exit(0); SystemExit is not caught by "except Exception".
signal_handler(w) ==
    /\ sigterm[w]
    /\ is_alive(w)
    /\ ends(w, "terminated")
    /\ UNCHANGED <<output_queue, events>>
    /\ wUnchanged

\* _DataCollectorProcess.stop(): self._stop_event.set(), on the worker's object.
process_stop(w) ==
    /\ wpc[w] # "none"
    /\ ~stop_event[w]
    /\ stop_event' = [stop_event EXCEPT ![w] = TRUE]
    /\ UNCHANGED <<config, all_candles, output_queue, processes, started, method,
                   wpc, wproxy, sigterm, main, stopIdx, stopFrom, iter, raised,
                   events, runs>>

\* --------------------------------------------------------- supervisor
\* Variant of assign_proxy: every worker gets the first proxy of the list.
assign_proxy_first(i) ==
    IF config.proxy_support /\ truthy(config.proxies)
    THEN <<config.proxies[1][1]>>
    ELSE NoProxy

\* The proxy of the identity at 0-based index i (lines 277-280).
assign_proxy(i) ==
    IF config.proxy_support /\ truthy(config.proxies)
    THEN <<config.proxies[1][(i % Len(config.proxies[1])) + 1]>>
    ELSE NoProxy

\* Variant of any_alive: all(...) written for any(...).
all_alive == \A k \in 1..Len(processes) : is_alive(processes[k])

\* Variant of any_alive: the liveness check only asks whether workers are tracked.
any_tracked == Len(processes) > 0

\* any(p.is_alive() for p in self.processes)
any_alive == \E k \in 1..Len(processes) : is_alive(processes[k])

\* Variant of start_processes: the "if self._started" guard is missing.
start_processes_unguarded(m) ==
    /\ main = "ready"
    /\ runs < MaxStarts
    /\ raised' = None
    /\ processes' = processes \o [k \in 1..Len(config.ssids) |-> k]
    /\ wpc' = [w \in Workers |-> "connect"]
    /\ wproxy' = [w \in Workers |-> assign_proxy(w - 1)]
    /\ stop_event' = [w \in Workers |-> FALSE]
    /\ sigterm' = [w \in Workers |-> FALSE]
    /\ method' = m
    /\ started' = TRUE
    /\ runs' = runs + 1
    /\ UNCHANGED <<config, all_candles, output_queue, main, stopIdx, stopFrom, iter, events>>

\* Variant of start_processes: at most max_workers processes are spawned.
start_processes_capped(m) ==
    /\ main = "ready"
    /\ IF started
       THEN /\ raised' = "RuntimeError"
            /\ UNCHANGED <<processes, started, method, wpc, wproxy, stop_event,
                           sigterm, runs>>
       ELSE /\ runs < MaxStarts
            /\ raised' = None
            /\ processes' = processes \o
                  [k \in 1..(IF config.max_workers[1] < Len(config.ssids)
                             THEN config.max_workers[1] ELSE Len(config.ssids)) |-> k]
            /\ wpc' = [w \in Workers |-> IF w <= config.max_workers[1]
                                          THEN "connect" ELSE "none"]
            /\ wproxy' = [w \in Workers |-> assign_proxy(w - 1)]
            /\ stop_event' = [w \in Workers |-> FALSE]
            /\ sigterm' = [w \in Workers |-> FALSE]
            /\ method' = m
            /\ started' = TRUE
            /\ runs' = runs + 1
    /\ UNCHANGED <<config, all_candles, output_queue, main, stopIdx, stopFrom,
                   iter, events>>

\* Variant of start_processes: every start makes a new, empty output queue.
start_processes_newqueue(m) ==
    /\ main = "ready"
    /\ IF started
       THEN /\ raised' = "RuntimeError"
            /\ UNCHANGED <<processes, started, method, wpc, wproxy, stop_event,
                           sigterm, runs, output_queue>>
       ELSE /\ runs < MaxStarts
            /\ raised' = None
            /\ processes' = processes \o [k \in 1..Len(config.ssids) |-> k]
            /\ wpc' = [w \in Workers |-> "connect"]
            /\ wproxy' = [w \in Workers |-> assign_proxy(w - 1)]
            /\ stop_event' = [w \in Workers |-> FALSE]
            /\ sigterm' = [w \in Workers |-> FALSE]
            /\ method' = m
            /\ started' = TRUE
            /\ runs' = runs + 1
            /\ output_queue' = <<>>
    /\ UNCHANGED <<config, all_candles, main, stopIdx, stopFrom, iter, events>>

\* MultiProcessDataCollector._start_processes(method, ...)
start_processes(m) ==
    /\ main = "ready"
    /\ IF started
       THEN /\ raised' = "RuntimeError"
            /\ UNCHANGED <<processes, started, method, wpc, wproxy, stop_event,
                           sigterm, runs>>
       ELSE /\ runs < MaxStarts
            /\ raised' = None
            /\ processes' = processes \o [k \in 1..Len(config.ssids) |-> k]
            /\ wpc' = [w \in Workers |-> "connect"]
            /\ wproxy' = [w \in Workers |-> assign_proxy(w - 1)]
            /\ stop_event' = [w \in Workers |-> FALSE]
            /\ sigterm' = [w \in Workers |-> FALSE]
            /\ method' = m
            /\ started' = TRUE
            /\ runs' = runs + 1
    /\ UNCHANGED <<config, all_candles, output_queue, main, stopIdx, stopFrom, iter, events>>

\* iter(collector): a new generator of __iter__, not yet advanced.
iter_begin ==
    /\ main = "ready"
    /\ iter \in {"none", "ended", "aborted"}
    /\ iter' = "running"
    /\ UNCHANGED <<config, all_candles, output_queue, processes, started, method, wpc, wproxy,
                   stop_event, sigterm, main, stopIdx, stopFrom, raised, events, runs>>

\* Variant of iter_get: the newest record is taken instead of the oldest.
iter_get_lifo ==
    /\ main = "ready"
    /\ iter = "running"
    /\ IF output_queue # <<>>
       THEN /\ output_queue' = SubSeq(output_queue, 1, Len(output_queue) - 1)
            /\ UNCHANGED main
       ELSE /\ main' = "timedout"
            /\ UNCHANGED output_queue
    /\ UNCHANGED <<config, all_candles, processes, started, method, wpc, wproxy,
                   stop_event, sigterm, stopIdx, stopFrom, iter, raised, events, runs>>

\* __iter__: data = self.output_queue.get(timeout=1); yield data, or queue.Empty.
iter_get ==
    /\ main = "ready"
    /\ iter = "running"
    /\ IF output_queue # <<>>
       THEN /\ output_queue' = Tail(output_queue)
            /\ UNCHANGED main
       ELSE /\ main' = "timedout"
            /\ UNCHANGED output_queue
    /\ UNCHANGED <<config, all_candles, processes, started, method, wpc, wproxy, stop_event,
                   sigterm, stopIdx, stopFrom, iter, raised, events, runs>>

\* Variant of iter_check: the normal end of the loop also resets the collector.
iter_check_autostop ==
    /\ main = "timedout"
    /\ main' = "ready"
    /\ iter' = IF ~any_alive THEN "ended" ELSE iter
    /\ started' = IF ~any_alive THEN FALSE ELSE started
    /\ processes' = IF ~any_alive THEN <<>> ELSE processes
    /\ UNCHANGED <<config, all_candles, output_queue, method, wpc, wproxy,
                   stop_event, sigterm, stopIdx, stopFrom, raised, events, runs>>

\* __iter__, except queue.Empty: break unless some tracked process is alive.
iter_check ==
    /\ main = "timedout"
    /\ main' = "ready"
    /\ iter' = IF ~any_alive THEN "ended" ELSE iter
    /\ UNCHANGED <<config, all_candles, output_queue, processes, started, method, wpc, wproxy,
                   stop_event, sigterm, stopIdx, stopFrom, raised, events, runs>>

\* KeyboardInterrupt raised while the main thread runs the "except queue.Empty"
\* handler: a sibling except clause does not catch it, so it leaves the
\* generator, which is finished without stop() having been called.
check_interrupt ==
    /\ main = "timedout"
    /\ iter = "running"
    /\ main' = "ready"
    /\ iter' = "aborted"
    /\ UNCHANGED <<config, all_candles, output_queue, processes, started, method, wpc, wproxy,
                   stop_event, sigterm, stopIdx, stopFrom, raised, events, runs>>

\* Entry of stop(): called by the user, or by __iter__ on KeyboardInterrupt.
stop_enter(from) ==
    /\ main = "ready"
    /\ main' = "stop_loop"
    /\ stopIdx' = 1
    /\ stopFrom' = from
    /\ raised' = None
    /\ UNCHANGED <<config, all_candles, output_queue, processes, started, method, wpc, wproxy,
                   stop_event, sigterm, iter, events, runs>>

stop_call == stop_enter("call")

\* __iter__, except KeyboardInterrupt: self.stop(); break
iter_interrupt ==
    /\ iter = "running"
    /\ stop_enter("interrupt")

\* The body of stop()'s loop head for a process within range.
stop_signal ==
    /\ IF is_alive(processes[stopIdx])
       THEN /\ sigterm' = [sigterm EXCEPT ![processes[stopIdx]] = TRUE]
            /\ main' = "stop_join"
            /\ UNCHANGED stopIdx
       ELSE /\ stopIdx' = stopIdx + 1
            /\ UNCHANGED <<sigterm, main>>
    /\ UNCHANGED <<processes, started, stopFrom, iter>>

\* Variant of stop_loop: self.processes.clear() is missing.
stop_loop_noclear ==
    /\ main = "stop_loop"
    /\ IF stopIdx > Len(processes)
       THEN /\ started' = FALSE
            /\ main' = "ready"
            /\ stopIdx' = 0
            /\ stopFrom' = None
            /\ iter' = IF stopFrom = "interrupt" THEN "ended" ELSE iter
            /\ UNCHANGED <<sigterm, processes>>
       ELSE stop_signal
    /\ UNCHANGED <<config, all_candles, output_queue, method, wpc, wproxy, stop_event, raised,
                   events, runs>>

\* Variant of stop_loop: self._started = False is missing.
stop_loop_noreset ==
    /\ main = "stop_loop"
    /\ IF stopIdx > Len(processes)
       THEN /\ processes' = <<>>
            /\ main' = "ready"
            /\ stopIdx' = 0
            /\ stopFrom' = None
            /\ iter' = IF stopFrom = "interrupt" THEN "ended" ELSE iter
            /\ UNCHANGED <<sigterm, started>>
       ELSE stop_signal
    /\ UNCHANGED <<config, all_candles, output_queue, method, wpc, wproxy, stop_event, raised,
                   events, runs>>

\* stop(): head of "for process in self.processes": is_alive() and terminate(),
\* or, past the last process, processes.clear() and _started = False.
stop_loop ==
    /\ main = "stop_loop"
    /\ IF stopIdx > Len(processes)
       THEN /\ processes' = <<>>
            /\ started' = FALSE
            /\ main' = "ready"
            /\ stopIdx' = 0
            /\ stopFrom' = None
            /\ iter' = IF stopFrom = "interrupt" THEN "ended" ELSE iter
            /\ UNCHANGED sigterm
       ELSE stop_signal
    /\ UNCHANGED <<config, all_candles, output_queue, method, wpc, wproxy, stop_event, raised,
                   events, runs>>

\* Variant of stop_join: process.kill() without the second is_alive() test.
stop_join_killall ==
    /\ main = "stop_join"
    /\ ends(processes[stopIdx], "killed")
    /\ stopIdx' = stopIdx + 1
    /\ main' = "stop_loop"
    /\ UNCHANGED <<config, all_candles, output_queue, processes, started, method, wproxy,
                   stop_event, stopFrom, iter, raised, events, runs>>

\* Variant of stop_join: the escalation to process.kill() is missing.
stop_join_nokill ==
    /\ main = "stop_join"
    /\ stopIdx' = stopIdx + 1
    /\ main' = "stop_loop"
    /\ UNCHANGED <<config, all_candles, output_queue, processes, started, method, wpc, wproxy,
                   stop_event, sigterm, stopFrom, iter, raised, events, runs>>

\* stop(): process.join(timeout=5) returns, because the process ended or the
\* grace period expired; then "if process.is_alive(): process.kill()".
stop_join ==
    /\ main = "stop_join"
    /\ IF is_alive(processes[stopIdx])
       THEN ends(processes[stopIdx], "killed")
       ELSE UNCHANGED <<wpc, sigterm>>
    /\ stopIdx' = stopIdx + 1
    /\ main' = "stop_loop"
    /\ UNCHANGED <<config, all_candles, output_queue, processes, started, method, wproxy,
                   stop_event, stopFrom, iter, raised, events, runs>>

\* ------------------------------------------------- get_candles facade
\* get_candles(...): a fresh collector, collector._start_processes('get_candles',
\* ...), all_candles = [], and the for-loop obtains the generator.
get_candles_call ==
    /\ main = "ready"
    /\ runs = 0
    /\ iter = "none"
    /\ ~started
    /\ runs < MaxStarts
    /\ raised' = None
    /\ processes' = processes \o [k \in 1..Len(config.ssids) |-> k]
    /\ wpc' = [w \in Workers |-> "connect"]
    /\ wproxy' = [w \in Workers |-> assign_proxy(w - 1)]
    /\ stop_event' = [w \in Workers |-> FALSE]
    /\ sigterm' = [w \in Workers |-> FALSE]
    /\ method' = "get_candles"
    /\ started' = TRUE
    /\ runs' = runs + 1
    /\ all_candles' = <<>>
    /\ iter' = "running"
    /\ main' = "facade"
    /\ UNCHANGED <<config, output_queue, stopIdx, stopFrom, events>>

\* "for data in collector": one get(timeout=1) of __iter__ and the loop body:
\* an error is printed, the items of a 'candles' record extend all_candles.
facade_get ==
    /\ main = "facade"
    /\ iter = "running"
    /\ IF output_queue # <<>>
       THEN /\ output_queue' = Tail(output_queue)
            /\ all_candles' = IF Head(output_queue).error # None
                                  THEN all_candles
                               ELSE IF Head(output_queue).type = "candles"
                                  THEN all_candles \o Head(output_queue).data
                               ELSE all_candles
            /\ UNCHANGED main
       ELSE /\ main' = "facade_timedout"
            /\ UNCHANGED <<output_queue, all_candles>>
    /\ UNCHANGED <<config, processes, started, method, wpc, wproxy, stop_event,
                   sigterm, stopIdx, stopFrom, iter, raised, events, runs>>

\* The queue.Empty handler of __iter__ under the facade: break ends the
\* for-loop and get_candles returns all_candles.
facade_check ==
    /\ main = "facade_timedout"
    /\ IF ~any_alive
       THEN /\ iter' = "ended"
            /\ main' = "returned"
       ELSE /\ main' = "facade"
            /\ UNCHANGED iter
    /\ UNCHANGED <<config, all_candles, output_queue, processes, started, method,
                   wpc, wproxy, stop_event, sigterm, stopIdx, stopFrom, raised,
                   events, runs>>

\* ------------------------------------------------------ specification
\* A collector is started, and started again, with one and the same method.
Next ==
    \/ \E m \in StartMethods : method \in {None, m} /\ start_processes(m)
    \/ iter_begin
    \/ iter_get
    \/ iter_check
    \/ check_interrupt
    \/ iter_interrupt
    \/ stop_call
    \/ stop_loop
    \/ stop_join
    \/ get_candles_call
    \/ facade_get
    \/ facade_check
    \/ \E w \in Workers : Connect(w)
    \/ \E w \in Workers : Settle(w)
    \/ \E w \in Workers : Subscribe(w)
    \/ \E w \in Workers : NextItem(w)
    \/ \E w \in Workers : StreamEnd(w)
    \/ \E w \in Workers : Fetch(w)
    \/ \E w \in Workers : Fault(w)
    \/ \E w \in Workers : Except(w)
    \/ \E w \in Workers : Retry(w)
    \/ \E w \in Workers : signal_handler(w)

Spec == Init /\ [][Next]_vars

\* One collection session: the collector spawns its workers at most once.
SessionNext ==
    \/ \E m \in StartMethods :
          method \in {None, m} /\ (started \/ runs = 0) /\ start_processes(m)
    \/ iter_begin
    \/ iter_get
    \/ iter_check
    \/ check_interrupt
    \/ iter_interrupt
    \/ stop_call
    \/ stop_loop
    \/ stop_join
    \/ get_candles_call
    \/ facade_get
    \/ facade_check
    \/ \E w \in Workers : Connect(w)
    \/ \E w \in Workers : Settle(w)
    \/ \E w \in Workers : Subscribe(w)
    \/ \E w \in Workers : NextItem(w)
    \/ \E w \in Workers : StreamEnd(w)
    \/ \E w \in Workers : Fetch(w)
    \/ \E w \in Workers : Fault(w)
    \/ \E w \in Workers : Except(w)
    \/ \E w \in Workers : Retry(w)
    \/ \E w \in Workers : signal_handler(w)

\* The consumer's for-loop keeps calling next() on the generator, and a
\* stop() in progress runs on (join has a time-out): the main thread is
\* weakly fair on these steps.  Nothing is assumed of the workers.
FairSpec ==
    /\ Init
    /\ [][SessionNext]_vars
    /\ WF_vars(iter_get \/ iter_check)
    /\ WF_vars(facade_get \/ facade_check)
    /\ WF_vars(stop_loop \/ stop_join)

\* Subscription workers on whose objects stop() may be called at any moment,
\* under a consumer that iterates; the collector itself is not stopped.
WorkerNext ==
    \/ start_processes("subscribe_symbol_timed")
    \/ iter_begin
    \/ iter_get
    \/ iter_check
    \/ \E w \in Workers :
          \/ Connect(w)
          \/ Settle(w)
          \/ Subscribe(w)
          \/ NextItem(w)
          \/ StreamEnd(w)
          \/ Fault(w)
          \/ Except(w)
          \/ Retry(w)
          \/ process_stop(w)

WorkerSpec == Init /\ [][WorkerNext]_vars

\* The constructor alone: DataCollectorConfig(**args) with the fields assigned
\* by the dataclass __init__, __post_init__ still to run.
ArgInit ==
    /\ config \in ArgChoices
    /\ output_queue = <<>>
    /\ processes = <<>>
    /\ started = FALSE
    /\ method = None
    /\ wpc = [w \in 1..Len(config.ssids) |-> "none"]
    /\ wproxy = [w \in 1..Len(config.ssids) |-> NoProxy]
    /\ stop_event = [w \in 1..Len(config.ssids) |-> FALSE]
    /\ sigterm = [w \in 1..Len(config.ssids) |-> FALSE]
    /\ main = "construct"
    /\ stopIdx = 0
    /\ stopFrom = None
    /\ iter = "none"
    /\ raised = None
    /\ events = 0
    /\ runs = 0
    /\ all_candles = <<>>

\* DataCollectorConfig.__post_init__
post_init ==
    /\ main = "construct"
    /\ IF post_init_raises(config.ssids, config.proxies, config.proxy_support)
       THEN /\ raised' = "ValueError"
            /\ main' = "failed"
            /\ UNCHANGED config
       ELSE /\ config' = post_init_result(config)
            /\ main' = "ready"
            /\ UNCHANGED raised
    /\ UNCHANGED <<all_candles, output_queue, processes, started, method, wpc,
                   wproxy, stop_event, sigterm, stopIdx, stopFrom, iter, events,
                   runs>>

\* A config is constructed and, when construction succeeds, a collector over
\* it is started.
ConfigNext ==
    \/ post_init
    \/ \E m \in StartMethods : start_processes(m)

ConfigSpec == ArgInit /\ [][ConfigNext]_vars

\* ------------------------------------------------------------- claims
InStop == main \in {"stop_loop", "stop_join"}

\* A step in which a subscription worker receives a candle while its stop
\* flag is clear: the collaborator delivers, and it is neither a fault (no
\* worker enters its except block) nor the call of get_candles.
item_step ==
    /\ events' # events
    /\ \A v \in Workers :
          /\ ~stop_event[v]
          /\ wpc[v] \in {"connect", "call"} => wpc'[v] = wpc[v]
          /\ wpc'[v] = "except" => wpc[v] = "except"

\* C1: _start_processes on a started collector raises RuntimeError and spawns
\* nothing: workers are spawned only from the not-started state, and the step
\* that raises RuntimeError happens only when started and leaves the tracked
\* processes, the workers, the started flag and the queue as they were.
C1_StartWhenStartedFails ==
    [][ /\ (runs' # runs) => ~started
        /\ (raised' = "RuntimeError" /\ raised # "RuntimeError") =>
              /\ started
              /\ started' = started
              /\ processes' = processes
              /\ wpc' = wpc
              /\ output_queue' = output_queue ]_vars

C1_Witness ==
    /\ raised = "RuntimeError"
    /\ started
    /\ Len(processes) = 2
    /\ \A w \in Workers : is_alive(w)

\* C2: whenever the consumption loop ends normally (a timed-out get followed
\* by a liveness check that finds no live worker), the queue is empty.
C2_QueueEmptyAtNormalEnd ==
    [][ (main = "timedout" /\ iter = "running" /\ iter' = "ended")
            => output_queue' = <<>> ]_vars

\* C3: the loop ends normally only from a timed-out get with no tracked worker
\* alive, and a liveness check that finds a live worker does not end the loop.
C3_EndsOnlyWhenNoneAlive ==
    [][ /\ (iter = "running" /\ iter' = "ended" /\ ~InStop) =>
              (main \in {"timedout", "facade_timedout"}
                 /\ \A w \in Workers : ~is_alive(w))
        /\ (main \in {"timedout", "facade_timedout"} /\ main' # main
              /\ \E w \in Workers : is_alive(w)) => iter' # "ended" ]_vars

C3_Witness ==
    /\ iter = "ended"
    /\ main = "ready"
    /\ started
    /\ runs = 1
    /\ Len(processes) = 2
    /\ \A w \in Workers : wpc[w] = "done"
    /\ output_queue = <<>>
    /\ events > 0

\* C4: with a consumer that keeps pulling, a loop that is polling while no
\* tracked worker is alive eventually ends (or is interrupted), unless stop()
\* is entered or new workers are started first: the loop never polls forever
\* over dead workers.
C4_LoopEventuallyEnds ==
    (iter = "running" /\ \A w \in Workers : ~is_alive(w))
        ~> (iter \in {"ended", "aborted"} \/ InStop \/ \E w \in Workers : is_alive(w))

C4_Witness ==
    /\ iter = "ended"
    /\ main = "ready"
    /\ started
    /\ method = "get_candles"
    /\ Len(processes) = 2
    /\ \A w \in Workers : wpc[w] = "done"
    /\ output_queue = <<>>
    /\ events = 2

\* C5: stop() on a collector that is not started raises nothing and changes
\* nothing: the tracked collection is empty whenever the flag is false, the
\* flag stays false, the queue and the workers keep their state, and no
\* supervisor call made while not started raises.
C5_StopIdempotent ==
    /\ [](~started => processes = <<>>)
    /\ [][ /\ (~started /\ InStop) =>
                 /\ main' = "ready"
                 /\ ~started'
                 /\ processes' = <<>>
                 /\ output_queue' = output_queue
                 /\ wpc' = wpc
           /\ ~started => raised' # "RuntimeError" ]_vars

C5_Witness ==
    /\ ~started
    /\ main = "stop_loop"
    /\ runs = 1
    /\ output_queue # <<>>

\* C6: in stop(), SIGTERM goes only to a worker that is alive, and is followed
\* by the wait; SIGKILL goes only to a worker that is still alive when the
\* wait is over and that was sent SIGTERM before.
C6_SignalThenWaitThenKill ==
    [][ \A w \in Workers :
          /\ (sigterm'[w] /\ ~sigterm[w]) =>
                /\ is_alive(w)
                /\ main = "stop_loop" /\ processes[stopIdx] = w
                /\ main' = "stop_join"
          /\ (wpc'[w] = "killed" /\ wpc[w] # "killed") =>
                /\ is_alive(w)
                /\ sigterm[w]
                /\ main = "stop_join" /\ processes[stopIdx] = w ]_vars

C6_Witness ==
    /\ ~started
    /\ \E v, w \in Workers :
          /\ wpc[v] = "killed"
          /\ wpc[w] = "terminated"

\* C7: once stop() has returned no worker is alive, and no record enters the
\* queue while the collector is not started.
C7_NoWorkerSurvivesStop ==
    /\ []((~started /\ ~InStop) => \A w \in Workers : ~is_alive(w))
    /\ [][ (~started /\ ~InStop) => Len(output_queue') <= Len(output_queue) ]_vars

C7_Witness ==
    /\ ~started
    /\ main = "ready"
    /\ \E w \in Workers : wpc[w] = "killed"
    /\ \E w \in Workers : wpc[w] = "terminated"

\* C8: the step that completes stop() leaves no tracked worker and the flag
\* false, and every start made from there succeeds, tracks exactly one fresh
\* worker per identity and sets the flag.
C8_RestartAfterStop ==
    [][ /\ (InStop /\ main' = "ready") => (processes' = <<>> /\ ~started')
        /\ (~started /\ runs' # runs) =>
              /\ raised' = None
              /\ started'
              /\ processes' = [k \in 1..Len(config.ssids) |-> k]
              /\ \A w \in Workers : wpc'[w] = "connect"
        /\ ~started' => raised' # "RuntimeError" ]_vars

C8_Witness ==
    /\ runs = 2
    /\ started
    /\ Len(processes) = 2
    /\ raised = None

\* C9: the except block of a worker in which the collaborator raised enqueues
\* one error record with the worker's ssid and method, and the worker does
\* not die of an unhandled exception.
C9_FaultBecomesErrorRecord ==
    [][ \A w \in Workers :
          (wpc[w] = "except" /\ wpc'[w] \notin {"except", "terminated", "killed"}) =>
              /\ wpc'[w] # "crashed"
              /\ Len(output_queue') = Len(output_queue) + 1
              /\ output_queue'[Len(output_queue')].tag = "error"
              /\ output_queue'[Len(output_queue')].ssid = config.ssids[w]
              /\ output_queue'[Len(output_queue')].type = method ]_vars

\* C10: a subscription worker with reconnect_on_error whose stream never ends
\* normally is alive in every state, unless stop() ended it.
C10_ReconnectingWorkerStaysAlive ==
    \A w \in Workers :
        (method \in SubscriptionKinds /\ config.reconnect_on_error
            /\ wpc[w] \notin {"none", "done"})
        => (is_alive(w) \/ wpc[w] \in {"terminated", "killed"})

\* C11: a worker leaves its except block having enqueued one error record,
\* towards a reconnection exactly when reconnect_on_error is set and the
\* method is a subscription, and towards its end otherwise (always so for
\* get_candles); a reconnection is entered from nowhere else.
C11_ReconnectOnlySubscriptions ==
    [][ \A w \in Workers :
          /\ (wpc[w] \in {"except", "except_full"}
                /\ wpc'[w] \notin {"except", "except_full", "terminated", "killed"}) =>
                 /\ Len(output_queue') = Len(output_queue) + 1
                 /\ output_queue'[Len(output_queue')].tag = "error"
                 /\ wpc'[w] = IF method \in SubscriptionKinds /\ config.reconnect_on_error
                               THEN "retry" ELSE "done"
          /\ (wpc'[w] = "retry" /\ wpc[w] # "retry") =>
                 /\ method \in SubscriptionKinds
                 /\ config.reconnect_on_error ]_vars

\* C12: the queue never holds more than its capacity; at capacity a push
\* leaves the contents as they are (the new record is discarded), and the
\* subscription worker whose candle was discarded goes on with its stream.
C12_QueueBounded ==
    /\ [](Len(output_queue) <= MaxQueue)
    /\ [][ /\ (Len(output_queue) = MaxQueue /\ Len(output_queue') >= MaxQueue)
                 => output_queue' = output_queue
           /\ \A w \in Workers :
                 (Len(output_queue) = MaxQueue /\ wpc[w] = "stream"
                    /\ ~stop_event[w] /\ events' # events /\ wpc'[w] # "except")
                 => wpc'[w] = "stream" ]_vars

C12_Witness ==
    /\ iter = "none"
    /\ Len(config.ssids) = 1
    /\ wpc[1] = "stream"
    /\ Len(output_queue) = MaxQueue
    /\ \A k \in 1..Len(output_queue) :
          output_queue[k].tag = "data" /\ output_queue[k].payload = k
    /\ events > MaxQueue

\* C14: the step in which a worker faults, crashes, ends or is terminated by
\* its signal handler changes no other worker (position, proxy, stop flag,
\* pending signal) and nothing of the supervisor (started flag, tracked
\* processes, position of the main thread, generator, raised exception).
C14_FaultIsolated ==
    [][ \A w \in Workers :
          (wpc'[w] # wpc[w]
             /\ wpc'[w] \in {"except", "except_full", "crashed", "done", "terminated"}) =>
             /\ \A v \in Workers \ {w} :
                   /\ wpc'[v] = wpc[v]
                   /\ sigterm'[v] = sigterm[v]
             /\ wproxy' = wproxy
             /\ stop_event' = stop_event
             /\ started' = started
             /\ processes' = processes
             /\ main' = main
             /\ stopIdx' = stopIdx
             /\ iter' = iter
             /\ raised' = raised ]_vars

C14_Witness ==
    /\ started
    /\ main = "ready"
    /\ raised = None
    /\ Len(processes) = 2
    /\ wpc[1] = "crashed"
    /\ wpc[2] = "stream"
    /\ \E k \in 1..Len(output_queue) : output_queue[k].tag = "error"

\* C20: stop() sets the stop flag of every live worker it asks to stop, and
\* a worker whose flag is set ends at its next item without enqueuing it.
C20_StopSetsFlag ==
    /\ [](\A w \in Workers : (sigterm[w] /\ is_alive(w)) => stop_event[w])
    /\ [][ \A w \in Workers :
             (stop_event[w] /\ wpc[w] = "stream" /\ events' # events
                /\ wpc'[w] # "except")
             => (wpc'[w] = "done" /\ output_queue' = output_queue) ]_vars

\* C19: every end of the consumption loop other than its normal end is due to
\* a KeyboardInterrupt, and leaves the collector stopped: no worker alive, no
\* tracked process, the started flag false; stop() runs in between without a
\* record being yielded, and a finished generator yields nothing.
C19_InterruptStopsAndEnds ==
    [][ /\ (iter = "running" /\ iter' # "running"
              /\ ~(main \in {"timedout", "facade_timedout"} /\ iter' = "ended")) =>
                 /\ processes' = <<>>
                 /\ ~started'
                 /\ \A w \in Workers : wpc'[w] \notin AliveStates
        /\ (stopFrom = "interrupt" \/ (iter # "running" /\ iter' # "running"))
              => Len(output_queue') >= Len(output_queue) ]_vars

\* C16: construction raises ValueError exactly when there is no ssid, or
\* proxy_support is set with a proxy list given that is shorter than the
\* ssid list.
C16_ConfigErrorExactly ==
    [][ main = "construct" =>
          ( raised' = "ValueError" <=>
              \/ Len(config.ssids) = 0
              \/ /\ config.proxy_support
                 /\ config.proxies # <<>>
                 /\ Len(config.proxies[1]) < Len(config.ssids) ) ]_vars

\* C17: a config constructed with proxy_support set (and at least one ssid)
\* has at least one proxy.
C17_ProxySupportNeedsProxy ==
    (main = "ready" /\ config.proxy_support /\ Len(config.ssids) > 0)
        => truthy(config.proxies)

\* C18: a successful construction leaves max_workers equal to the number of
\* ssids when none was supplied, and as supplied otherwise.
C18_MaxWorkersDefault ==
    [][ (main = "construct" /\ main' = "ready") =>
          config'.max_workers = IF config.max_workers = <<>>
                                THEN <<Len(config.ssids)>>
                                ELSE config.max_workers ]_vars

C18_Witness ==
    /\ main = "ready"
    /\ runs = 0
    /\ Len(config.ssids) = 2
    /\ config.max_workers = <<2>>

\* C15: when the get_candles facade returns, no 'candles' record that a worker
\* produced is left out of the result (none is still in the queue) and no
\* item is in the result twice.
C15_FetchHistoryAggregatesAll ==
    main = "returned" =>
        /\ \A k \in 1..Len(output_queue) : output_queue[k].tag # "candles"
        /\ \A i, j \in 1..Len(all_candles) :
              i # j => all_candles[i] # all_candles[j]

\* C13: the records of one worker are numbered in the order it emits them.
\* A record enters the queue at the tail, with a number above those of the
\* same worker already there; the record handed to the consumer is the head,
\* and every record of the same worker that stays behind has a larger number:
\* no record of a worker is consumed before one that the worker emitted
\* earlier, whatever the other workers push in between.
C13_PerWorkerOrder ==
    [][ /\ Len(output_queue') < Len(output_queue) =>
              /\ output_queue' = Tail(output_queue)
              /\ \A k \in 1..Len(output_queue') :
                    output_queue'[k].ssid = Head(output_queue).ssid
                    => output_queue'[k].payload > Head(output_queue).payload
        /\ Len(output_queue') > Len(output_queue) =>
              /\ SubSeq(output_queue', 1, Len(output_queue)) = output_queue
              /\ Len(output_queue') = Len(output_queue) + 1
              /\ \A k \in 1..Len(output_queue) :
                    output_queue[k].ssid = output_queue'[Len(output_queue')].ssid
                    => output_queue[k].payload < output_queue'[Len(output_queue')].payload
      ]_vars

C13_Witness ==
    /\ iter = "running"
    /\ Len(config.ssids) = 2
    /\ events = 3
    /\ Len(output_queue) = 1
    /\ output_queue[1].ssid = "s1"
    /\ output_queue[1].payload = 3
    /\ output_queue[1].tag = "data"
    /\ wpc[2] = "retry"

\* C24: a candle received while the queue is full is dropped and nothing
\* else happens: no worker changes position (none blocks, ends, reconnects or
\* enters its except block) and the queue keeps its contents; a candle received
\* while there is room is appended as a data record of a streaming worker.
C24_DropDoesNotDisturb ==
    [][ item_step =>
          /\ wpc' = wpc
          /\ IF Len(output_queue) >= MaxQueue
             THEN output_queue' = output_queue
             ELSE /\ Len(output_queue') = Len(output_queue) + 1
                  /\ SubSeq(output_queue', 1, Len(output_queue)) = output_queue
                  /\ output_queue'[Len(output_queue')].tag = "data"
                  /\ output_queue'[Len(output_queue')].payload = events'
                  /\ \E w \in Workers :
                        /\ wpc[w] = "stream"
                        /\ output_queue'[Len(output_queue')].ssid = config.ssids[w]
      ]_vars

C24_Witness ==
    /\ Len(config.ssids) = 1
    /\ wpc[1] = "stream"
    /\ runs = 1
    /\ Len(output_queue) = 2
    /\ output_queue[1].tag = "data" /\ output_queue[1].payload = 2
    /\ output_queue[2].tag = "data" /\ output_queue[2].payload = 4

\* C27: a worker in its except block that finds the queue at capacity ends
\* abnormally, enqueues nothing and does not reconnect, whatever
\* reconnect_on_error is; get_candles finding the queue at capacity enqueues
\* nothing and enters the except block; a worker ends abnormally in no other way.
C27_ErrorPushOnFullCrashes ==
    [][ \A w \in Workers :
          /\ (wpc[w] \in {"except", "except_full"} /\ Len(output_queue) >= MaxQueue
                /\ wpc'[w] \notin {wpc[w], "terminated", "killed"}) =>
                 /\ wpc'[w] = "crashed"
                 /\ output_queue' = output_queue
          /\ (wpc[w] = "call" /\ method = "get_candles" /\ Len(output_queue) >= MaxQueue
                /\ wpc'[w] \notin {"call", "except", "terminated", "killed"}) =>
                 /\ wpc'[w] = "except_full"
                 /\ output_queue' = output_queue
          /\ (wpc'[w] = "crashed" /\ wpc[w] # "crashed") =>
                 /\ wpc[w] \in {"except", "except_full"}
                 /\ Len(output_queue) >= MaxQueue ]_vars

C27_Witness ==
    /\ config.reconnect_on_error
    /\ method \in SubscriptionKinds
    /\ Len(output_queue) = MaxQueue
    /\ \E w \in Workers : wpc[w] = "crashed"
    /\ \A k \in 1..Len(output_queue) : output_queue[k].tag = "data"

\* C22: a worker reaches the settle delay only from connect, the subscribe or
\* fetch call only from the settle delay, its stream only from the call; it
\* connects only at start or after the retry delay, the retry delay leads
\* nowhere but to a new connect, and a 'candles' record is enqueued only by a
\* worker at its call.
C22_ConnectSettleCall ==
    [][ \A w \in Workers :
          /\ (wpc'[w] = "settle" /\ wpc[w] # "settle") => wpc[w] = "connect"
          /\ (wpc'[w] = "call" /\ wpc[w] # "call") => wpc[w] = "settle"
          /\ (wpc'[w] = "stream" /\ wpc[w] # "stream") => wpc[w] = "call"
          /\ (wpc'[w] = "connect" /\ wpc[w] # "connect") =>
                (wpc[w] = "retry" \/ runs' # runs)
          /\ (wpc[w] = "retry" /\ wpc'[w] # "retry") =>
                wpc'[w] \in {"connect", "terminated", "killed"}
          /\ (Len(output_queue') > Len(output_queue)
                /\ output_queue'[Len(output_queue')].tag = "candles"
                /\ output_queue'[Len(output_queue')].ssid = config.ssids[w]) =>
                wpc[w] = "call" ]_vars

C22_Witness ==
    /\ Len(config.ssids) = 1
    /\ runs = 1
    /\ wpc[1] = "stream"
    /\ output_queue # <<>>
    /\ output_queue[1].tag = "error"
    /\ output_queue[1].ssid = config.ssids[1]

\* C23: a subscription worker with reconnect_on_error enters the retry delay
\* in the step that enqueues the error record of the fault, leaves it only
\* for a new connect, and always goes from its except block to the retry
\* delay: nothing ever stops the retries.
C23_ErrorThenDelayThenConnect ==
    [][ \A w \in Workers :
          /\ (wpc'[w] = "retry" /\ wpc[w] # "retry") =>
                /\ Len(output_queue') = Len(output_queue) + 1
                /\ output_queue'[Len(output_queue')].tag = "error"
                /\ output_queue'[Len(output_queue')].ssid = config.ssids[w]
          /\ (wpc[w] = "retry" /\ wpc'[w] # "retry") =>
                wpc'[w] \in {"connect", "terminated", "killed"}
          /\ (wpc[w] = "except" /\ method \in SubscriptionKinds
                /\ config.reconnect_on_error
                /\ wpc'[w] \notin {"except", "terminated", "killed"}) =>
                wpc'[w] = "retry" ]_vars

\* C28: while stop() runs the queue only grows at its tail, a start leaves
\* the queue as it is, and every push goes behind the records already there:
\* what a stopped run left in the queue is still there, ahead of the new
\* records, when the next run is consumed.
C28_QueueSurvivesStop ==
    [][ /\ (InStop \/ Len(output_queue') > Len(output_queue)) =>
              /\ Len(output_queue') >= Len(output_queue)
              /\ SubSeq(output_queue', 1, Len(output_queue)) = output_queue
        /\ runs' # runs => output_queue' = output_queue ]_vars

C28_Witness ==
    /\ runs = 2
    /\ started
    /\ main = "ready"
    /\ iter = "running"
    /\ output_queue # <<>>
    /\ \A w \in Workers : wpc[w] = "connect"

\* C30: the started flag is cleared, and tracked processes are dropped, only
\* by the step that completes stop(); the normal end of the consumption loop
\* leaves the flag set and the dead workers tracked, and no start spawns
\* workers while the flag is set.
C30_StartedUntilStop ==
    [][ /\ (started /\ ~started') => (main = "stop_loop" /\ main' = "ready")
        /\ Len(processes') < Len(processes) => main = "stop_loop"
        /\ (started /\ iter = "running" /\ iter' = "ended" /\ ~InStop) =>
              (started' /\ processes' = processes)
        /\ (started /\ raised' = "RuntimeError") => runs' = runs ]_vars

C30_Witness ==
    /\ started
    /\ main = "ready"
    /\ iter = "ended"
    /\ raised = "RuntimeError"
    /\ Len(processes) = 2
    /\ \A w \in Workers : wpc[w] = "done"

\* C25: once workers are spawned, the worker of the identity at index i holds
\* proxies[i mod len(proxies)] when proxy_support is set and the proxy list is
\* given and non-empty, and no proxy otherwise.
C25_ProxyByIndex ==
    runs > 0 =>
      /\ \A w \in Workers :
            wproxy[w] = IF ~config.proxy_support \/ config.proxies = <<>>
                           \/ Len(config.proxies[1]) = 0
                        THEN <<>>
                        ELSE <<config.proxies[1][((w - 1) % Len(config.proxies[1])) + 1]>>
      /\ (config.proxy_support /\ Len(config.ssids) = 2
            /\ config.proxies = <<<<Proxy1, Proxy2>>>>) =>
            wproxy = <<<<Proxy1>>, <<Proxy2>>>>

C25_Witness ==
    /\ started
    /\ Len(config.ssids) = 2
    /\ config.proxy_support
    /\ wproxy[1] = <<Proxy1>>
    /\ wproxy[2] = <<Proxy2>>

\* C26: a record put on the queue names a worker that is at its stream (a
\* candle) or at its call (a batch), and the record, and every item of a
\* batch, carries that worker's identity with the URL of the proxy assigned
\* to it, or no URL when it has none; the facade hands the items of a batch
\* on as they are.
C26_StampedWithOwnIdentity ==
    [][ /\ Len(output_queue') > Len(output_queue) =>
              \E w \in Workers :
                 LET r == output_queue'[Len(output_queue')]
                     url == IF wproxy[w] = <<>> THEN <<>>
                            ELSE IF wproxy[w][1].host = "h1"
                                 THEN <<"http", "://", "u", ":", "p", "@", "h1", ":", "8080">>
                                 ELSE <<"socks5", "://", "h2", ":", "1080">>
                 IN  /\ r.ssid = config.ssids[w]
                     /\ r.tag = "data" => (wpc[w] = "stream" /\ r.proxy = url)
                     /\ r.tag = "candles" =>
                           /\ wpc[w] = "call" /\ wpc'[w] = "done"
                           /\ r.data # <<>>
                           /\ \A k \in 1..Len(r.data) :
                                 r.data[k].ssid = config.ssids[w] /\ r.data[k].proxy = url
        /\ Len(all_candles') > Len(all_candles) =>
              all_candles' = all_candles \o output_queue[1].data ]_vars

C26_Witness ==
    /\ Len(config.ssids) = 2
    /\ Len(output_queue) = 2
    /\ wpc[1] = "done"
    /\ output_queue[1].tag = "data"
    /\ output_queue[1].ssid = "s1"
    /\ output_queue[1].proxy = <<"http", "://", "u", ":", "p", "@", "h1", ":", "8080">>
    /\ output_queue[2].tag = "data"
    /\ output_queue[2].ssid = "s2"
    /\ output_queue[2].proxy = <<"socks5", "://", "h2", ":", "1080">>

\* C29: a start that spawns tracks one process per identity, in the order of
\* the identities, and all of them are alive at once, whatever max_workers is.
C29_OneWorkerPerIdentity ==
    [][ runs' # runs =>
          /\ processes' = [k \in 1..Len(config.ssids) |-> k]
          /\ \A w \in Workers : wpc'[w] = "connect" ]_vars

C29_Witness ==
    /\ started
    /\ Len(config.ssids) = 2
    /\ config.max_workers = <<1>>
    /\ Len(processes) = 2
    /\ \A w \in Workers : is_alive(w)

====
